---- MODULE Spec2Model ----
(***************************************************************************)
(* Model of the ESP8266 NeoPixel clock's pixel driver                      *)
(* (src/NeoPixelBus_Driver.h) and colour functions (src/Colors.h).         *)
(*                                                                         *)
(* Representation.                                                         *)
(*  - brightness is a C float; it is kept here in hundredths (0.01 = 1,    *)
(*    0.8 = 80, 0.0 = 0), so channel * brightness truncated to a uint8_t   *)
(*    is (channel * brightness) \div 100.                                  *)
(*  - a uint32_t colour is a natural number below 2^31; a shift by 8 is a  *)
(*    multiplication or division by 256, and | is computed bit by bit.     *)
(*  - staged is the frame buffer inside the NeoPixelBus object, displayed  *)
(*    is what the physical LEDs show (the buffer as last sent by Show).    *)
(*  - flushes, written, passAtFlush, pre and passed are history variables: *)
(*    they record what a call did and no action reads them.  calls counts  *)
(*    the top-level calls and is read only to bound a behaviour.           *)
(***************************************************************************)
EXTENDS Integers, Sequences, FiniteSets, TLC

VARIABLES brightness, staged, displayed, pc, call, i, j,
          flushes, written, passAtFlush, pre, calls, ret, passed

vars == <<brightness, staged, displayed, pc, call, i, j,
          flushes, written, passAtFlush, pre, calls, ret, passed>>

(***************************************************************************)
(* Compile-time constants of the surrounding firmware.  The two headers    *)
(* use them and do not define them; the values are the layout the zone     *)
(* loops of Colors.h imply (a 24 pixel ring, a 12 pixel ring, an 8 pixel   *)
(* strip, one after the other).                                            *)
(***************************************************************************)
PIXEL_COUNT == 44
LARGE_RING_OFFSET == 0
SMALL_RING_OFFSET == 24
STRIP_OFFSET == 36

\* Loop bounds of the zone functions and of rainbowCycle.
LARGE_RING_PIXELS == 24
SMALL_RING_PIXELS == 12
STRIP_PIXELS == 8
RAINBOW_STEPS == 768

\* The clamp limits of setBrightness, in hundredths.
MIN_BRIGHTNESS == 1
MAX_BRIGHTNESS == 80

\* How many top-level calls a behaviour makes.
MaxCalls == 3

Pixels == 0 .. (PIXEL_COUNT - 1)

(***************************************************************************)
(* 32 bit unsigned arithmetic.  Every int handed to a uint32_t below is    *)
(* non-negative, so the conversion keeps its value.                        *)
(***************************************************************************)
\* c & 0xFF on a non-negative value: the low byte.
AndFF(c) == c % 256

\* a | b on non-negative values, bit by bit from bit 0 up.  Each level
\* takes its two arguments as values (the singleton sets), so an argument is
\* computed once however often the level reads it.
RECURSIVE BitOr(_, _)
BitOr(a, b) ==
  LET bits(x, y) ==
        IF x = 0 THEN y
        ELSE IF y = 0 THEN x
        ELSE (IF (x % 2) + (y % 2) > 0 THEN 1 ELSE 0) + 2 * BitOr(x \div 2, y \div 2)
  IN  CHOOSE r \in {bits(x, y) : x \in {a}, y \in {b}} : TRUE

\* c << 8 on a uint32_t: the top byte falls off.
ShiftLeft8(c) == (c % 16777216) * 256
ShiftRight8(c) == c \div 256

(***************************************************************************)
(* Colors.h                                                                *)
(***************************************************************************)
\* createColor with the first shift left out: red and green share a byte.
createColorNoShift(red, green, blue) ==
  BitOr(ShiftLeft8(BitOr(red, green)), blue)

createColor(red, green, blue) ==
  LET c0 == red
      c1 == ShiftLeft8(c0)
      c2 == BitOr(c1, green)
      c3 == ShiftLeft8(c2)
  IN  BitOr(c3, blue)

\* wheel with the two ramps of the first segment exchanged.
wheelChannelsSwapped(wheelPos) ==
  IF wheelPos < 85
  THEN <<255 - wheelPos * 3, wheelPos * 3, 0>>
  ELSE IF wheelPos < 170
       THEN LET p == (wheelPos - 85) % 256
            IN  <<255 - p * 3, 0, p * 3>>
       ELSE LET p == (wheelPos - 170) % 256
            IN  <<0, p * 3, 255 - p * 3>>

\* wheel with the falling ramp of the second segment starting at 256.
wheelChannelsFrom256(wheelPos) ==
  IF wheelPos < 85
  THEN <<wheelPos * 3, 255 - wheelPos * 3, 0>>
  ELSE IF wheelPos < 170
       THEN LET p == (wheelPos - 85) % 256
            IN  <<256 - p * 3, 0, p * 3>>
       ELSE LET p == (wheelPos - 170) % 256
            IN  <<0, p * 3, 255 - p * 3>>

\* The three arguments wheel hands to createColor.  wheelPos is a byte, so
\* "wheelPos -= 85" wraps modulo 256; the products are computed as int.
wheelChannels(wheelPos) ==
  IF wheelPos < 85
  THEN <<wheelPos * 3, 255 - wheelPos * 3, 0>>
  ELSE IF wheelPos < 170
       THEN LET p == (wheelPos - 85) % 256
            IN  <<255 - p * 3, 0, p * 3>>
       ELSE LET p == (wheelPos - 170) % 256
            IN  <<0, p * 3, 255 - p * 3>>

wheel(wheelPos) ==
  LET ch == wheelChannels(wheelPos)
  IN  createColor(ch[1], ch[2], ch[3])

\* rainbowCycle with the division done before the multiplication.
rainbowPosDivFirst(pi, pj) == AndFF((pi * (256 \div PIXEL_COUNT)) + pj)

\* The argument of wheel in rainbowCycle; the byte parameter keeps the
\* low 8 bits of the masked int.
rainbowPos(pi, pj) == AndFF(((pi * 256) \div PIXEL_COUNT) + pj)

(***************************************************************************)
(* NeoPixelBus_Driver.h                                                    *)
(***************************************************************************)
Black == [R |-> 0, G |-> 0, B |-> 0]

\* setBrightness without the upper limit.
clampBrightnessLowOnly(value) ==
  IF value < MIN_BRIGHTNESS THEN MIN_BRIGHTNESS ELSE value

\* setBrightness: the two conditional assignments, in the order of the code.
clampBrightness(value) ==
  LET v1 == IF value < MIN_BRIGHTNESS THEN MIN_BRIGHTNESS ELSE value
      v2 == IF v1 > MAX_BRIGHTNESS THEN MAX_BRIGHTNESS ELSE v1
  IN  v2

\* (channel * brightness) stored into a uint8_t field of RgbColor.
scaleChannel(channel, b) == ((channel * b) \div 100) % 256

\* colorGamma.Correct on one channel.  The lookup table belongs to the
\* NeoPixelBus library; this curve stands for it and keeps what the table
\* guarantees: a value in 0..255, monotone, 0 stays 0 and 255 stays 255.
gammaChannel(v) == (v * v + 254) \div 255

gammaCorrect(rgb) ==
  [R |-> gammaChannel(rgb.R), G |-> gammaChannel(rgb.G), B |-> gammaChannel(rgb.B)]

\* The channels setPixelColor takes out of a packed colour: blue from the
\* low byte, then green and red after a shift by 8 each.  adjustedColor is
\* the RgbColor it stores: each channel scaled, then gamma corrected.
extractChannels(color) ==
  LET blue  == AndFF(color)
      c1    == ShiftRight8(color)
      green == AndFF(c1)
      c2    == ShiftRight8(c1)
      red   == AndFF(c2)
  IN  [R |-> red, G |-> green, B |-> blue]

adjustedColor(color, b) ==
  LET ch == extractChannels(color)
  IN  gammaCorrect([R |-> scaleChannel(ch.R, b), G |-> scaleChannel(ch.G, b),
                    B |-> scaleChannel(ch.B, b)])

\* strip.SetPixelColor: the library stores the colour when the index is
\* inside the strip and ignores the call otherwise.
stripSetPixelColor(buf, num, rgb) ==
  IF num \in Pixels THEN [buf EXCEPT ![num] = rgb] ELSE buf

\* setPixelColor(num, color) applied to a frame buffer.
setPixelColor(buf, num, color, b) ==
  stripSetPixelColor(buf, num, adjustedColor(color, b))

(***************************************************************************)
(* The state machine.  pc = "idle" is the caller between two calls; the    *)
(* functions with a loop run one setPixelColor call, or the closing Show,  *)
(* per step.  call keeps the arguments of the call in progress (or of the  *)
(* last one, once it returned).                                            *)
(***************************************************************************)
NoCall == [name |-> "none", color |-> 0, num |-> 0, value |-> 0, wait |-> 0,
           red |-> 0, green |-> 0, blue |-> 0, wheelPos |-> 0]

\* Inputs.
ColorInputs == {0, 16777215, 3368601}
BrightnessInputs == {-500, 1, 50, 80, 500}
PixelInputs == {0, LARGE_RING_OFFSET + LARGE_RING_PIXELS - 1, SMALL_RING_OFFSET,
                PIXEL_COUNT - 1}
WaitInputs == {0, 20}
ChannelInputs == {0, 1, 2, 4, 8, 16, 32, 64, 85, 127, 128, 170, 254, 255}
WideChannelInputs == {256, 511}
ResidualFrame == [p \in Pixels |-> [R |-> 9, G |-> 9, B |-> 9]]

\* After construction: the static float is zero-initialised, the strip
\* object holds an all-zero buffer, and the LEDs show whatever they held
\* before (nothing, or a frame left from before a reset).
Init ==
  /\ brightness = 0
  /\ staged = [p \in Pixels |-> Black]
  /\ displayed \in {[p \in Pixels |-> Black], ResidualFrame}
  /\ pc = "idle"
  /\ call = NoCall
  /\ i = 0
  /\ j = 0
  /\ flushes = 0
  /\ written = << >>
  /\ passAtFlush = << >>
  /\ pre = [p \in Pixels |-> Black]
  /\ calls = 0
  /\ ret = 0
  /\ passed = <<0, 0, 0>>

\* A call starts: the history of the previous call is dropped.
beginCall(c, loc) ==
  /\ pc = "idle"
  /\ calls < MaxCalls
  /\ calls' = calls + 1
  /\ call' = c
  /\ pc' = loc
  /\ pre' = staged

\* One setPixelColor(num, color) call.
writePixel(num, color) ==
  /\ staged' = setPixelColor(staged, num, color, brightness)
  /\ written' = Append(written, num)

\* strip.Show(): the staged buffer goes out to the LEDs.
stripShow ==
  /\ displayed' = staged
  /\ flushes' = flushes + 1
  /\ passAtFlush' = written
  /\ written' = << >>

freshHistory ==
  /\ flushes' = 0
  /\ written' = << >>
  /\ passAtFlush' = << >>

SetBrightness ==
  \E value \in BrightnessInputs :
    /\ beginCall([NoCall EXCEPT !.name = "setBrightness", !.value = value], "idle")
    /\ brightness' = clampBrightness(value)
    /\ freshHistory
    /\ UNCHANGED <<staged, displayed, i, j, ret, passed>>

InitPixels ==
  /\ beginCall([NoCall EXCEPT !.name = "initPixels"], "idle")
  /\ displayed' = staged
  /\ flushes' = 1
  /\ passAtFlush' = << >>
  /\ written' = << >>
  /\ UNCHANGED <<brightness, staged, i, j, ret, passed>>

\* setPixelColor sending the buffer out as well.
SetPixelColorAndShow ==
  \E num \in PixelInputs, color \in ColorInputs :
    /\ beginCall([NoCall EXCEPT !.name = "setPixelColor", !.num = num,
                                !.color = color], "idle")
    /\ staged' = setPixelColor(staged, num, color, brightness)
    /\ displayed' = staged'
    /\ written' = <<num>>
    /\ flushes' = 0
    /\ passAtFlush' = << >>
    /\ UNCHANGED <<brightness, i, j, ret, passed>>

SetPixelColor ==
  \E num \in PixelInputs, color \in ColorInputs :
    /\ beginCall([NoCall EXCEPT !.name = "setPixelColor", !.num = num,
                                !.color = color], "idle")
    /\ staged' = setPixelColor(staged, num, color, brightness)
    /\ written' = <<num>>
    /\ flushes' = 0
    /\ passAtFlush' = << >>
    /\ UNCHANGED <<brightness, displayed, i, j, ret, passed>>

ShowPixels ==
  /\ beginCall([NoCall EXCEPT !.name = "showPixels"], "idle")
  /\ displayed' = staged
  /\ flushes' = 1
  /\ passAtFlush' = << >>
  /\ written' = << >>
  /\ UNCHANGED <<brightness, staged, i, j, ret, passed>>

\* clearAllPixels stopping one pixel early.
clearAllPixelsLoopShort(k) == k < PIXEL_COUNT - 1

\* setLargeRingColor addressing the small ring.
largeRingPixelSmall(k) == SMALL_RING_OFFSET + k

\* The loop conditions and pixel indices of the functions with a loop.
clearAllPixelsLoop(k) == k < PIXEL_COUNT
setAllPixelsLoop(k) == k < PIXEL_COUNT
setLargeRingColorLoop(k) == k < LARGE_RING_PIXELS
setSmallRingColorLoop(k) == k < SMALL_RING_PIXELS
setStripColorLoop(k) == k < STRIP_PIXELS
largeRingPixel(k) == LARGE_RING_OFFSET + k
smallRingPixel(k) == SMALL_RING_OFFSET + k
stripPixel(k) == STRIP_OFFSET + k

\* clearAllPixels: for (i = 0; i < PIXEL_COUNT; i++) setPixelColor(i, 0);
\* then strip.Show().
ClearAllPixelsCall ==
  /\ beginCall([NoCall EXCEPT !.name = "clearAllPixels"], "clear_loop")
  /\ i' = 0
  /\ freshHistory
  /\ UNCHANGED <<brightness, staged, displayed, j, ret, passed>>

ClearAllPixelsWrite ==
  /\ pc = "clear_loop"
  /\ clearAllPixelsLoop(i)
  /\ writePixel(i, 0)
  /\ i' = i + 1
  /\ UNCHANGED <<brightness, displayed, pc, call, j, flushes, passAtFlush,
                 pre, calls, ret, passed>>

ClearAllPixelsShow ==
  /\ pc = "clear_loop"
  /\ ~clearAllPixelsLoop(i)
  /\ stripShow
  /\ pc' = "idle"
  /\ UNCHANGED <<brightness, staged, call, i, j, pre, calls, ret, passed>>

\* setAllPixels(color): the same loop with the caller's colour.
SetAllPixelsCall ==
  \E color \in ColorInputs :
    /\ beginCall([NoCall EXCEPT !.name = "setAllPixels", !.color = color],
                 "setall_loop")
    /\ i' = 0
    /\ freshHistory
    /\ UNCHANGED <<brightness, staged, displayed, j, ret, passed>>

SetAllPixelsWrite ==
  /\ pc = "setall_loop"
  /\ setAllPixelsLoop(i)
  /\ writePixel(i, call.color)
  /\ i' = i + 1
  /\ UNCHANGED <<brightness, displayed, pc, call, j, flushes, passAtFlush,
                 pre, calls, ret, passed>>

SetAllPixelsShow ==
  /\ pc = "setall_loop"
  /\ ~setAllPixelsLoop(i)
  /\ stripShow
  /\ pc' = "idle"
  /\ UNCHANGED <<brightness, staged, call, i, j, pre, calls, ret, passed>>

\* setLargeRingColor(color): for (i = 0; i < 24; i++)
\* setPixelColor(LARGE_RING_OFFSET + i, color); then showPixels().
SetLargeRingColorCall ==
  \E color \in ColorInputs :
    /\ beginCall([NoCall EXCEPT !.name = "setLargeRingColor", !.color = color],
                 "large_loop")
    /\ i' = 0
    /\ freshHistory
    /\ UNCHANGED <<brightness, staged, displayed, j, ret, passed>>

SetLargeRingColorWrite ==
  /\ pc = "large_loop"
  /\ setLargeRingColorLoop(i)
  /\ writePixel(largeRingPixel(i), call.color)
  /\ i' = i + 1
  /\ UNCHANGED <<brightness, displayed, pc, call, j, flushes, passAtFlush,
                 pre, calls, ret, passed>>

SetLargeRingColorShow ==
  /\ pc = "large_loop"
  /\ ~setLargeRingColorLoop(i)
  /\ stripShow
  /\ pc' = "idle"
  /\ UNCHANGED <<brightness, staged, call, i, j, pre, calls, ret, passed>>

\* setSmallRingColor(color)
SetSmallRingColorCall ==
  \E color \in ColorInputs :
    /\ beginCall([NoCall EXCEPT !.name = "setSmallRingColor", !.color = color],
                 "small_loop")
    /\ i' = 0
    /\ freshHistory
    /\ UNCHANGED <<brightness, staged, displayed, j, ret, passed>>

SetSmallRingColorWrite ==
  /\ pc = "small_loop"
  /\ setSmallRingColorLoop(i)
  /\ writePixel(smallRingPixel(i), call.color)
  /\ i' = i + 1
  /\ UNCHANGED <<brightness, displayed, pc, call, j, flushes, passAtFlush,
                 pre, calls, ret, passed>>

SetSmallRingColorShow ==
  /\ pc = "small_loop"
  /\ ~setSmallRingColorLoop(i)
  /\ stripShow
  /\ pc' = "idle"
  /\ UNCHANGED <<brightness, staged, call, i, j, pre, calls, ret, passed>>

\* setStripColor(color)
SetStripColorCall ==
  \E color \in ColorInputs :
    /\ beginCall([NoCall EXCEPT !.name = "setStripColor", !.color = color],
                 "strip_loop")
    /\ i' = 0
    /\ freshHistory
    /\ UNCHANGED <<brightness, staged, displayed, j, ret, passed>>

SetStripColorWrite ==
  /\ pc = "strip_loop"
  /\ setStripColorLoop(i)
  /\ writePixel(stripPixel(i), call.color)
  /\ i' = i + 1
  /\ UNCHANGED <<brightness, displayed, pc, call, j, flushes, passAtFlush,
                 pre, calls, ret, passed>>

SetStripColorShow ==
  /\ pc = "strip_loop"
  /\ ~setStripColorLoop(i)
  /\ stripShow
  /\ pc' = "idle"
  /\ UNCHANGED <<brightness, staged, call, i, j, pre, calls, ret, passed>>

Next ==
  \/ SetBrightness
  \/ InitPixels
  \/ SetPixelColor
  \/ ShowPixels
  \/ ClearAllPixelsCall
  \/ ClearAllPixelsWrite
  \/ ClearAllPixelsShow
  \/ SetAllPixelsCall
  \/ SetAllPixelsWrite
  \/ SetAllPixelsShow
  \/ SetLargeRingColorCall
  \/ SetLargeRingColorWrite
  \/ SetLargeRingColorShow
  \/ SetSmallRingColorCall
  \/ SetSmallRingColorWrite
  \/ SetSmallRingColorShow
  \/ SetStripColorCall
  \/ SetStripColorWrite
  \/ SetStripColorShow

Spec == Init /\ [][Next]_vars

(***************************************************************************)
(* rainbowCycle, on its own: the two nested loops, one setPixelColor,      *)
(* showPixels or delay per step.  The behaviours start from a driver that  *)
(* was set to the largest brightness and shows nothing yet.                *)
(***************************************************************************)
MaxRainbowCalls == 1

\* rainbowCycle stopping the inner loop one pixel early.
rainbowCycleInnerShort(k) == k < PIXEL_COUNT - 1

rainbowCycleOuter(k) == k < RAINBOW_STEPS
rainbowCycleInner(k) == k < PIXEL_COUNT

InitRainbow ==
  /\ brightness = MAX_BRIGHTNESS
  /\ staged = [p \in Pixels |-> Black]
  /\ displayed = [p \in Pixels |-> Black]
  /\ pc = "idle"
  /\ call = NoCall
  /\ i = 0
  /\ j = 0
  /\ flushes = 0
  /\ written = << >>
  /\ passAtFlush = << >>
  /\ pre = [p \in Pixels |-> Black]
  /\ calls = 0
  /\ ret = 0
  /\ passed = <<0, 0, 0>>

RainbowCycleCall ==
  \E wait \in WaitInputs :
    /\ calls < MaxRainbowCalls
    /\ beginCall([NoCall EXCEPT !.name = "rainbowCycle", !.wait = wait], "rc_loop")
    /\ i' = 0
    /\ j' = 0
    /\ freshHistory
    /\ UNCHANGED <<brightness, staged, displayed, ret, passed>>

RainbowCycleWrite ==
  /\ pc = "rc_loop"
  /\ rainbowCycleOuter(j)
  /\ rainbowCycleInner(i)
  /\ \E color \in {wheel(rainbowPos(i, j))} : writePixel(i, color)
  /\ i' = i + 1
  /\ UNCHANGED <<brightness, displayed, pc, call, j, flushes, passAtFlush,
                 pre, calls, ret, passed>>

RainbowCycleShow ==
  /\ pc = "rc_loop"
  /\ rainbowCycleOuter(j)
  /\ ~rainbowCycleInner(i)
  /\ stripShow
  /\ pc' = "rc_delay"
  /\ UNCHANGED <<brightness, staged, call, i, j, pre, calls, ret, passed>>

\* delay(wait), then j++ and the inner loop starts over.
RainbowCycleDelay ==
  /\ pc = "rc_delay"
  /\ j' = j + 1
  /\ i' = 0
  /\ pc' = "rc_loop"
  /\ UNCHANGED <<brightness, staged, displayed, call, flushes, written,
                 passAtFlush, pre, calls, ret, passed>>

RainbowCycleReturn ==
  /\ pc = "rc_loop"
  /\ ~rainbowCycleOuter(j)
  /\ pc' = "idle"
  /\ UNCHANGED <<brightness, staged, displayed, call, i, j, flushes, written,
                 passAtFlush, pre, calls, ret, passed>>

RainbowCycleStep ==
  \/ RainbowCycleWrite
  \/ RainbowCycleShow
  \/ RainbowCycleDelay
  \/ RainbowCycleReturn

NextRainbow ==
  \/ RainbowCycleCall
  \/ RainbowCycleStep

\* The processor runs nothing else: a loop that can take a step takes it.
SpecRainbow == InitRainbow /\ [][NextRainbow]_vars /\ WF_vars(RainbowCycleStep)

(***************************************************************************)
(* The pure functions of Colors.h: a behaviour starts with one call to     *)
(* make, its arguments drawn from the channel values and from every byte,  *)
(* and the call returns in one step.                                       *)
(***************************************************************************)
AllChannelInputs == ChannelInputs \cup WideChannelInputs

PureCalls ==
  {[NoCall EXCEPT !.name = "createColor", !.red = r, !.green = g, !.blue = b] :
      r \in AllChannelInputs, g \in AllChannelInputs, b \in AllChannelInputs}
  \cup {[NoCall EXCEPT !.name = "wheel", !.wheelPos = w] : w \in 0 .. 255}

InitPure ==
  /\ brightness = 0
  /\ staged = [p \in Pixels |-> Black]
  /\ displayed = [p \in Pixels |-> Black]
  /\ pc = "pure_call"
  /\ call \in PureCalls
  /\ i = 0
  /\ j = 0
  /\ flushes = 0
  /\ written = << >>
  /\ passAtFlush = << >>
  /\ pre = [p \in Pixels |-> Black]
  /\ calls = 0
  /\ ret = 0
  /\ passed = <<0, 0, 0>>

CreateColorCall ==
  /\ pc = "pure_call"
  /\ call.name = "createColor"
  /\ ret' = createColor(call.red, call.green, call.blue)
  /\ passed' = <<call.red, call.green, call.blue>>
  /\ pc' = "pure_done"
  /\ UNCHANGED <<brightness, staged, displayed, call, i, j, flushes, written,
                 passAtFlush, pre, calls>>

WheelCall ==
  /\ pc = "pure_call"
  /\ call.name = "wheel"
  /\ ret' = wheel(call.wheelPos)
  /\ passed' = wheelChannels(call.wheelPos)
  /\ pc' = "pure_done"
  /\ UNCHANGED <<brightness, staged, displayed, call, i, j, flushes, written,
                 passAtFlush, pre, calls>>

NextPure ==
  \/ CreateColorCall
  \/ WheelCall

SpecPure == InitPure /\ [][NextPure]_vars

(***************************************************************************)
(* Properties.                                                             *)
(***************************************************************************)
WheelReturned == pc = "pure_done" /\ call.name = "wheel"
CreateColorReturned == pc = "pure_done" /\ call.name = "createColor"

BrightnessInRange == brightness \in MIN_BRIGHTNESS .. MAX_BRIGHTNESS

\* C3: for red, green and blue in 0..255, taking the channels out of
\* createColor(red, green, blue) the way setPixelColor does gives back red,
\* green and blue.
CreateColorRoundTrip ==
  (/\ CreateColorReturned
   /\ call.red \in 0 .. 255
   /\ call.green \in 0 .. 255
   /\ call.blue \in 0 .. 255)
  => extractChannels(ret) = [R |-> call.red, G |-> call.green, B |-> call.blue]

CreateColorRoundTripReached ==
  /\ CreateColorReturned
  /\ call.red = 255
  /\ call.green = 128
  /\ call.blue = 1
  /\ ret = 16744449

FullPass == [k \in 1 .. PIXEL_COUNT |-> k - 1]
InRainbowCycle == call.name = "rainbowCycle"

\* C4: rainbowCycle(wait) terminates for every wait: once called, it
\* returns.  When it returns it has flushed exactly 768 times; every flush
\* was preceded by one setPixelColor for each pixel 0 .. PIXEL_COUNT-1, in
\* order, since the flush before it, and nothing is written after the last
\* flush.
RainbowCycleFlushes ==
  /\ [](InRainbowCycle =>
          /\ (pc = "idle" => flushes = 768 /\ written = << >>)
          /\ (flushes > 0 => passAtFlush = FullPass)
          /\ (pc # "idle" => flushes < 768 \/ (flushes = 768 /\ written = << >>)))
  /\ ((InRainbowCycle /\ pc # "idle") ~> (InRainbowCycle /\ pc = "idle"))

RainbowCycleFlushesReached ==
  InRainbowCycle /\ pc = "idle" /\ call.wait = 0 /\ flushes = 768

LargeRing == LARGE_RING_OFFSET .. (LARGE_RING_OFFSET + 23)

\* C5: when setLargeRingColor(C) returns, the staged pixels
\* LARGE_RING_OFFSET .. LARGE_RING_OFFSET+23 hold the adjusted C, every other
\* staged pixel is as it was at the call, and there was exactly one flush,
\* after the 24 writes; while the loop runs there is no flush.
SetLargeRingColorEffect ==
  /\ (call.name = "setLargeRingColor" /\ pc = "idle") =>
        /\ \A p \in LargeRing : staged[p] = adjustedColor(call.color, brightness)
        /\ \A p \in Pixels \ LargeRing : staged[p] = pre[p]
        /\ flushes = 1
        /\ passAtFlush = [k \in 1 .. 24 |-> LARGE_RING_OFFSET + k - 1]
        /\ written = << >>
  /\ pc = "large_loop" => flushes = 0

SetLargeRingColorReached ==
  /\ call.name = "setLargeRingColor"
  /\ pc = "idle"
  /\ staged[LARGE_RING_OFFSET] # Black
  /\ staged[PIXEL_COUNT - 1] # Black
  /\ staged[PIXEL_COUNT - 1] # staged[LARGE_RING_OFFSET]

\* C6: setBrightness(v) stores min(max(v, 0.01), 0.8) whatever the brightness
\* was before: -5 gives 0.01, 5 gives 0.8 and 0.5 gives 0.5.
SetBrightnessClamps ==
  call.name = "setBrightness" =>
    LET lower == IF call.value > 1 THEN call.value ELSE 1
        both  == IF lower < 80 THEN lower ELSE 80
    IN  /\ brightness = both
        /\ (call.value = -500 => brightness = 1)
        /\ (call.value = 500 => brightness = 80)
        /\ (call.value = 50 => brightness = 50)

SetBrightnessClampsReached ==
  call.name = "setBrightness" /\ call.value = 500 /\ brightness = 80 /\ calls = 2

\* C7: when clearAllPixels() returns, at any brightness and from any state,
\* every pixel is 0 in the staged buffer and on the LEDs, and there was
\* exactly one flush, after the write of every pixel; while the loop runs
\* there is no flush.
ClearAllPixelsEffect ==
  /\ (call.name = "clearAllPixels" /\ pc = "idle") =>
        /\ \A p \in Pixels : staged[p] = Black /\ displayed[p] = Black
        /\ flushes = 1
        /\ passAtFlush = FullPass
        /\ written = << >>
  /\ pc = "clear_loop" => flushes = 0

ClearAllPixelsReached ==
  /\ call.name = "clearAllPixels"
  /\ pc = "idle"
  /\ brightness > 0
  /\ pre[0] # Black
  /\ staged[0] = Black

FlushStep ==
  \/ flushes' = flushes + 1
  \/ calls' = calls + 1 /\ call'.name \in {"initPixels", "showPixels"}

\* C8: a setPixelColor(index, color) call changes the staged entry at index
\* and nothing else: not the LEDs, not the brightness, no other staged
\* entry.  No step that writes the staged buffer changes the LEDs, and the
\* LEDs change only in a flush, to the staged buffer.
SetPixelColorStagesOnly ==
  [][/\ (calls' = calls + 1 /\ call'.name = "setPixelColor") =>
          /\ displayed' = displayed
          /\ brightness' = brightness
          /\ \A p \in Pixels \ {call'.num} : staged'[p] = staged[p]
          /\ staged'[call'.num] = adjustedColor(call'.color, brightness)
     /\ (staged' # staged => displayed' = displayed)
     /\ (displayed' # displayed => FlushStep /\ displayed' = staged)]_vars

SetPixelColorStagesOnlyReached ==
  /\ call.name = "setPixelColor"
  /\ staged[call.num] # Black
  /\ staged[call.num] # pre[call.num]
  /\ displayed[call.num] # staged[call.num]

\* C9: in rainbowCycle the frame flushed at step j holds at every pixel p the
\* adjusted wheel(((p * 256 / PIXEL_COUNT) + j) mod 256); the position given
\* to wheel is in 0..255; and when the writes of step j are under way, the
\* flushes of all the steps before j, and no others, have happened.
RainbowCycleFrames ==
  InRainbowCycle =>
    /\ (pc = "rc_delay" =>
          /\ flushes = j + 1
          /\ \A p \in Pixels :
               displayed[p] =
                 adjustedColor(wheel((((p * 256) \div PIXEL_COUNT) + j) % 256),
                               brightness))
    /\ (pc = "rc_loop" =>
          /\ flushes = j
          /\ written = [k \in 1 .. i |-> k - 1]
          /\ (i < PIXEL_COUNT => rainbowPos(i, j) \in 0 .. 255))

RainbowCycleFramesReached ==
  /\ InRainbowCycle
  /\ pc = "rc_delay"
  /\ j = 767
  /\ brightness = MAX_BRIGHTNESS
  /\ displayed[0] # displayed[1]

\* C10: for every byte, the three channels wheel gives createColor are in
\* 0..255 and add up to 255, the result fits in 24 bits and holds exactly
\* those channels.
WheelChannelsInRange ==
  WheelReturned =>
    /\ \A k \in 1 .. 3 : passed[k] \in 0 .. 255
    /\ passed[1] + passed[2] + passed[3] = 255
    /\ ret \in 0 .. 16777215
    /\ extractChannels(ret) = [R |-> passed[1], G |-> passed[2], B |-> passed[3]]

WheelChannelsInRangeReached ==
  WheelReturned /\ call.wheelPos = 255 /\ passed = <<0, 255, 0>>

====
